---- MODULE Spec2Model ----
(***************************************************************************)
(* Rendezvous engine of piping-server (src/src/piping.ts): the registry of *)
(* unestablished pipes and established flags, the handlers of sender and   *)
(* receiver arrivals, the close-watchers of waiting participants and the   *)
(* transfer started by runPipe with its stream event handlers.             *)
(***************************************************************************)
EXTENDS Integers, Sequences, FiniteSets, TLC

\* Bounds of the model
MaxReq == 3
MaxN == 2
MaxChunks == 1

Req == 1..MaxReq
Ns == 0..MaxN
Chunks == 1..MaxChunks

\* `sender?` of an UnestablishedPipe that is undefined
NoReq == 0

Methods == {"POST", "PUT", "GET", "DELETE"}
RESERVED_PATHS == {"/", "/version", "/help"}
Paths == RESERVED_PATHS \cup {"/a"}

VARIABLES
  pathToEstablished,        \* keys of Server.pathToEstablished
  pathToUnestablishedPipe,  \* Server.pathToUnestablishedPipe
  req,                      \* the requests admitted as participants
  conn,                     \* state of the connection of each participant
  closeListener,            \* "close" listener of createSenderOrReceiver installed
  res,                      \* the response of each participant
  pipes,                    \* the runPipe invocations, by sender
  answered,                 \* the response a handler ended at once, not yet sent
  nextReq                   \* identity of the next participant

vars == <<pathToEstablished, pathToUnestablishedPipe, req, conn, closeListener,
          res, pipes, answered, nextReq>>

Range(s) == {s[i] : i \in 1..Len(s)}

\* `${n}` in a template string
Str(n) ==
  CASE n = 0 -> "0" [] n = 1 -> "1" [] n = 2 -> "2" [] n = 3 -> "3"
    [] n = 4 -> "4" [] n = 5 -> "5" [] n = 6 -> "6" [] OTHER -> "7"

\* The messages of the handlers
ReservedPathMsg(p) == <<"[ERROR] Cannot send to a reserved path '", p, "'. (e.g. '/mypath123')\n">>
BadCountMsg(n) == <<"[ERROR] n should > 0, but n = ", Str(n), ".\n">>
SenderEstablishedMsg(p) == <<"[ERROR] Connection on '", p, "' has been established already.\n">>
ReceiverEstablishedMsg(p) == <<"Error: Connection on '", p, "' has been established already.\n">>
CountMismatchMsg(e, n) == <<"Error: The number of receivers should be ", Str(e), " but ", Str(n), ".\n">>
DuplicateSenderMsg(p) == <<"[ERROR] Another sender has been registered on '", p, "'.\n">>
ReceiversFullMsg == <<"Error: The number of receivers has reached limits.\n">>
UnsupportedMethodMsg(m) == <<"Error: Unsupported method: ", m, "\n">>
StaticPage(p) ==
  CASE p = "/" -> <<"indexPage">>
    [] p = "/version" -> <<"VERSION", "\n">>
    [] OTHER -> <<"generateHelpPage">>
WaitingMsg(n) == <<"[INFO] Waiting for ", Str(n), " receiver(s)...\n">>
ConnectedMsg(k) == <<"[INFO] ", Str(k), " receiver(s) has/have been connected.\n">>
AReceiverMsg == <<"[INFO] A receiver was connected.\n">>
StartSendingMsg == <<"Start sending!\n">>
StartSendingWithMsg(n) == <<"[INFO] Start sending with ", Str(n), " receiver(s)!\n">>
SuccessMsg == <<"[INFO] Sending Successful!\n">>
FailedMsg == <<"[ERROR] Sending Failed.\n">>
AllClosedMsg == <<"[INFO] All receiver(s) was/were closed halfway.\n">>

\* A response on which nothing was written
NewRes == [status |-> 0, out |-> <<>>, body |-> <<>>, ended |-> FALSE, late |-> <<>>]
NoAnswer == [status |-> 0, body |-> <<>>]
NewReq == [role |-> "none", path |-> "", n |-> 0, multipart |-> FALSE]

NoUnestablishedPipe == [sender |-> NoReq, receivers |-> <<>>, nReceivers |-> 0]
\* No runPipe was invoked for the sender
NoPipe == [stage |-> "none", path |-> "", receivers |-> <<>>, closeCount |-> 0,
           piped |-> {}, src |-> "flowing", sent |-> 0]

\* res.writeHead, res.write, res.end on the responses rs
WriteHead(rs, r, st) == [rs EXCEPT ![r].status = st]
Write(rs, r, line) == [rs EXCEPT ![r].out = Append(@, line)]
End(rs, r, line) ==
  IF rs[r].ended
    THEN [rs EXCEPT ![r].late = Append(@, line)]
    ELSE [rs EXCEPT ![r].out = Append(@, line), ![r].ended = TRUE]

\* delete obj[key]
Delete(f, k) == [x \in DOMAIN f \ {k} |-> f[x]]

\* receivers.splice(idx, 1)
Splice(s, idx) == [i \in 1..(Len(s) - 1) |-> IF i < idx THEN s[i] ELSE s[i + 1]]

\* receivers.findIndex((r) => r.reqRes === receiverReqRes), 0 for -1
FindIndex(s, r) ==
  IF \E i \in 1..Len(s) : s[i] = r
    THEN CHOOSE i \in 1..Len(s) : s[i] = r /\ \A j \in 1..(i - 1) : s[j] # r
    ELSE 0

\* getPipeIfEstablished that is content with one receiver
getPipeIfAnyReceiver(p) == p.sender # NoReq /\ Len(p.receivers) >= 1

\* The test of getPipeIfEstablished
getPipeIfEstablished(p) == p.sender # NoReq /\ Len(p.receivers) = p.nReceivers

\* Reply that also drops the established flags
ReplyAndRelease(a) ==
  /\ answered' = a
  /\ pathToEstablished' = {}
  /\ UNCHANGED <<pathToUnestablishedPipe, req, conn, closeListener, res, pipes,
                 nextReq>>

\* res.writeHead(st); res.end(body) of a request the handler answers at once
Reply(a) ==
  /\ answered' = a
  /\ UNCHANGED <<pathToEstablished, pathToUnestablishedPipe, req, conn,
                 closeListener, res, pipes, nextReq>>

Answer(st, body) == [status |-> st, body |-> body]

\* WriteHeadAll that writes no head
WriteHeadNone(rs, receivers) == rs

\* receiver.res.writeHead(200, headers) for every receiver of the pipe
WriteHeadAll(rs, receivers) ==
  [r \in Req |-> IF r \in Range(receivers) THEN [rs[r] EXCEPT !.status = 200] ELSE rs[r]]

\* runPipe that leaves the record in the registry
runPipeKeepRecord(p, s, receivers, mp, rs) ==
  /\ pathToEstablished' = pathToEstablished \cup {p}
  /\ pathToUnestablishedPipe' =
       [pathToUnestablishedPipe EXCEPT ![p].sender = s, ![p].receivers = receivers]
  /\ IF mp
       THEN /\ pipes' = [pipes EXCEPT ![s] = [NoPipe EXCEPT !.stage = "awaitPart",
                                   !.path = p, !.receivers = receivers]]
            /\ res' = rs
       ELSE /\ pipes' = [pipes EXCEPT ![s] = [NoPipe EXCEPT !.stage = "piping",
                                   !.path = p, !.receivers = receivers,
                                   !.piped = Range(receivers)]]
            /\ res' = [r \in Req |-> IF r \in Range(receivers)
                                       THEN [rs[r] EXCEPT !.status = 200] ELSE rs[r]]

\* runPipe up to its await: the flag, the record, and for a body that is
\* not multipart the headers, the pipes and the listeners of each receiver
runPipe(p, s, receivers, mp, rs) ==
  /\ pathToEstablished' = pathToEstablished \cup {p}
  /\ pathToUnestablishedPipe' = Delete(pathToUnestablishedPipe, p)
  /\ IF mp
       THEN /\ pipes' = [pipes EXCEPT ![s] = [NoPipe EXCEPT !.stage = "awaitPart",
                                   !.path = p, !.receivers = receivers]]
            /\ res' = rs
       ELSE /\ pipes' = [pipes EXCEPT ![s] = [NoPipe EXCEPT !.stage = "piping",
                                   !.path = p, !.receivers = receivers,
                                   !.piped = Range(receivers)]]
            /\ res' = WriteHeadAll(rs, receivers)

\* r.unsubscribeCloseListener() for the receivers of an established pipe
Unsubscribe(cl, receivers) ==
  [r \in Req |-> IF r \in Range(receivers) THEN FALSE ELSE cl[r]]

\* createSenderOrReceiver: the participant and its "close" listener
createSenderOrReceiver(role, p, n, mp) ==
  /\ nextReq <= MaxReq
  /\ req' = [req EXCEPT ![nextReq] = [role |-> role, path |-> p, n |-> n,
                                      multipart |-> mp]]
  /\ nextReq' = nextReq + 1
  /\ UNCHANGED answered

\* senderAnswer with the count of the record compared before its sender
senderAnswerCountFirst(p, n) ==
  IF n <= 0 THEN Answer(400, BadCountMsg(n))
  ELSE IF p \in pathToEstablished THEN Answer(400, SenderEstablishedMsg(p))
  ELSE IF p \in DOMAIN pathToUnestablishedPipe THEN
    IF n = pathToUnestablishedPipe[p].nReceivers THEN
      IF pathToUnestablishedPipe[p].sender = NoReq THEN NoAnswer
      ELSE Answer(400, DuplicateSenderMsg(p))
    ELSE Answer(400, CountMismatchMsg(pathToUnestablishedPipe[p].nReceivers, n))
  ELSE NoAnswer

\* The branches of handleSender that end the response at once: the answer,
\* NoAnswer when the sender is registered
senderAnswer(p, n) ==
  IF n <= 0 THEN Answer(400, BadCountMsg(n))
  ELSE IF p \in pathToEstablished THEN Answer(400, SenderEstablishedMsg(p))
  ELSE IF p \in DOMAIN pathToUnestablishedPipe THEN
    IF pathToUnestablishedPipe[p].sender = NoReq THEN
      IF n = pathToUnestablishedPipe[p].nReceivers THEN NoAnswer
      ELSE Answer(400, CountMismatchMsg(pathToUnestablishedPipe[p].nReceivers, n))
    ELSE Answer(400, DuplicateSenderMsg(p))
  ELSE NoAnswer

\* joinLines with the two lines in the other order
joinLinesSwapped(rs, s, n, k) == Write(Write(rs, s, ConnectedMsg(k)), s, WaitingMsg(n))

\* The lines written to a sender that joins a record of k receivers
joinLines(rs, s, n, k) == Write(Write(rs, s, WaitingMsg(n)), s, ConnectedMsg(k))

\* The lines written to the sender s of a record, NoReq for none, when a
\* receiver is appended and the record is then established or not
receiverLines(rs, s, established, k) ==
  LET connected == IF s # NoReq THEN Write(rs, s, AReceiverMsg) ELSE rs
  IN IF established THEN Write(connected, s, StartSendingWithMsg(k)) ELSE connected

handleSender(p, n, mp) ==
  IF senderAnswer(p, n) # NoAnswer THEN Reply(senderAnswer(p, n))
  ELSE IF p \in DOMAIN pathToUnestablishedPipe THEN
    LET unestablishedPipe == pathToUnestablishedPipe[p]
        s == nextReq
        joined == [unestablishedPipe EXCEPT !.sender = s]
        rs == joinLines(res, s, n, Len(unestablishedPipe.receivers))
    IN /\ createSenderOrReceiver("sender", p, n, mp)
       /\ UNCHANGED <<conn>>
       /\ IF getPipeIfEstablished(joined)
            THEN /\ closeListener' =
                      Unsubscribe([closeListener EXCEPT ![s] = TRUE], joined.receivers)
                 /\ runPipe(p, s, joined.receivers, mp, Write(rs, s, StartSendingMsg))
            ELSE /\ closeListener' = [closeListener EXCEPT ![s] = TRUE]
                 /\ pathToUnestablishedPipe' =
                      [pathToUnestablishedPipe EXCEPT ![p] = joined]
                 /\ res' = rs
                 /\ UNCHANGED <<pathToEstablished, pipes>>
  ELSE
    /\ createSenderOrReceiver("sender", p, n, mp)
    /\ res' = Write(res, nextReq, WaitingMsg(n))
    /\ closeListener' = [closeListener EXCEPT ![nextReq] = TRUE]
    /\ pathToUnestablishedPipe' =
         [q \in DOMAIN pathToUnestablishedPipe \cup {p} |->
            IF q = p THEN [sender |-> nextReq, receivers |-> <<>>, nReceivers |-> n]
                     ELSE pathToUnestablishedPipe[q]]
    /\ UNCHANGED <<pathToEstablished, conn, pipes>>

\* receiverAnswer without the limit of the receivers
receiverAnswerNoLimit(p, n) ==
  IF n <= 0 THEN Answer(400, BadCountMsg(n))
  ELSE IF p \in pathToEstablished THEN Answer(400, ReceiverEstablishedMsg(p))
  ELSE IF p \in DOMAIN pathToUnestablishedPipe THEN
    IF n = pathToUnestablishedPipe[p].nReceivers THEN NoAnswer
    ELSE Answer(400, CountMismatchMsg(pathToUnestablishedPipe[p].nReceivers, n))
  ELSE NoAnswer

\* receiverAnswer without the comparison of the counts
receiverAnswerAnyCount(p, n) ==
  IF n <= 0 THEN Answer(400, BadCountMsg(n))
  ELSE IF p \in pathToEstablished THEN Answer(400, ReceiverEstablishedMsg(p))
  ELSE IF p \in DOMAIN pathToUnestablishedPipe THEN
    IF Len(pathToUnestablishedPipe[p].receivers) < pathToUnestablishedPipe[p].nReceivers
      THEN NoAnswer
      ELSE Answer(400, ReceiversFullMsg)
  ELSE NoAnswer

\* The branches of handleReceiver that end the response at once: the answer,
\* NoAnswer when the receiver is registered
receiverAnswer(p, n) ==
  IF n <= 0 THEN Answer(400, BadCountMsg(n))
  ELSE IF p \in pathToEstablished THEN Answer(400, ReceiverEstablishedMsg(p))
  ELSE IF p \in DOMAIN pathToUnestablishedPipe THEN
    IF n = pathToUnestablishedPipe[p].nReceivers THEN
      IF Len(pathToUnestablishedPipe[p].receivers) < pathToUnestablishedPipe[p].nReceivers
        THEN NoAnswer
        ELSE Answer(400, ReceiversFullMsg)
    ELSE Answer(400, CountMismatchMsg(pathToUnestablishedPipe[p].nReceivers, n))
  ELSE NoAnswer

handleReceiver(p, n) ==
  IF receiverAnswer(p, n) # NoAnswer THEN Reply(receiverAnswer(p, n))
  ELSE IF p \in DOMAIN pathToUnestablishedPipe THEN
    LET unestablishedPipe == pathToUnestablishedPipe[p]
        r == nextReq
        s == unestablishedPipe.sender
        joined == [unestablishedPipe EXCEPT !.receivers = Append(@, r)]
        rs == receiverLines(res, s, getPipeIfEstablished(joined), Len(joined.receivers))
    IN /\ createSenderOrReceiver("receiver", p, n, FALSE)
       /\ UNCHANGED <<conn>>
       /\ IF getPipeIfEstablished(joined)
            THEN /\ closeListener' =
                      Unsubscribe([closeListener EXCEPT ![r] = TRUE], joined.receivers)
                 /\ runPipe(p, s, joined.receivers, req[s].multipart, rs)
            ELSE /\ closeListener' = [closeListener EXCEPT ![r] = TRUE]
                 /\ pathToUnestablishedPipe' =
                      [pathToUnestablishedPipe EXCEPT ![p] = joined]
                 /\ res' = rs
                 /\ UNCHANGED <<pathToEstablished, pipes>>
  ELSE
    /\ createSenderOrReceiver("receiver", p, n, FALSE)
    /\ closeListener' = [closeListener EXCEPT ![nextReq] = TRUE]
    /\ pathToUnestablishedPipe' =
         [q \in DOMAIN pathToUnestablishedPipe \cup {p} |->
            IF q = p THEN [sender |-> NoReq, receivers |-> <<nextReq>>, nReceivers |-> n]
                     ELSE pathToUnestablishedPipe[q]]
    /\ UNCHANGED <<pathToEstablished, conn, res, pipes>>

\* The response generateHandler ends at once for a request with method m,
\* path p and query n, NoAnswer when the request is registered
handlerAnswer(m, p, n) ==
  IF m \in {"POST", "PUT"} THEN
    IF p \in RESERVED_PATHS THEN Answer(400, ReservedPathMsg(p))
    ELSE senderAnswer(p, n)
  ELSE IF m = "GET" THEN
    IF p \in RESERVED_PATHS THEN Answer(0, StaticPage(p))
    ELSE receiverAnswer(p, n)
  ELSE Answer(0, UnsupportedMethodMsg(m))

\* HandleRequest without the test of the reserved paths
HandleRequestAnyPath(m, p, n, mp) ==
  IF m \in {"POST", "PUT"} THEN handleSender(p, n, mp)
  ELSE IF m = "GET" THEN handleReceiver(p, n)
  ELSE Reply(handlerAnswer(m, p, n))

\* The handler of generateHandler for a request with method m, path p,
\* query n and a multipart content type or not
HandleRequest(m, p, n, mp) ==
  IF m \in {"POST", "PUT"} THEN
    IF p \in RESERVED_PATHS THEN Reply(handlerAnswer(m, p, n))
    ELSE handleSender(p, n, mp)
  ELSE IF m = "GET" THEN
    IF p \in RESERVED_PATHS THEN Reply(handlerAnswer(m, p, n))
    ELSE handleReceiver(p, n)
  ELSE Reply(handlerAnswer(m, p, n))

\* The pipe that holds r among its receivers, NoReq when there is none
PipeOf(r) ==
  IF \E s \in Req : r \in Range(pipes[s].receivers)
    THEN CHOOSE s \in Req : r \in Range(pipes[s].receivers)
    ELSE NoReq

\* connection.destroy()
Destroy(cn, r) == IF cn[r] = "open" THEN [cn EXCEPT ![r] = "destroyed"] ELSE cn

\* closeListenerFn whose receiver remover finds no receiver
closeListenerSenderOnly(r, reg) ==
  LET reqPath == req[r].path IN
  IF reqPath \in DOMAIN reg /\ req[r].role = "sender" /\ reg[reqPath].sender # NoReq
    THEN IF Len(reg[reqPath].receivers) = 0
           THEN Delete(reg, reqPath)
           ELSE [reg EXCEPT ![reqPath].sender = NoReq]
    ELSE reg

\* closeListenerFn that never deletes the record
closeListenerKeep(r, reg) ==
  LET reqPath == req[r].path IN
  IF reqPath \in DOMAIN reg THEN
    LET unestablishedPipe == reg[reqPath]
        idx == FindIndex(unestablishedPipe.receivers, r)
    IN [reg EXCEPT ![reqPath] =
          IF req[r].role = "sender"
            THEN [unestablishedPipe EXCEPT !.sender = NoReq]
            ELSE IF idx # 0
              THEN [unestablishedPipe EXCEPT !.receivers = Splice(@, idx)]
              ELSE unestablishedPipe]
  ELSE reg

\* closeListener of createSenderOrReceiver, on the registry reg
closeListenerFn(r, reg) ==
  LET reqPath == req[r].path IN
  IF reqPath \in DOMAIN reg THEN
    LET unestablishedPipe == reg[reqPath]
        idx == FindIndex(unestablishedPipe.receivers, r)
        removed == IF req[r].role = "sender" THEN unestablishedPipe.sender # NoReq
                                             ELSE idx # 0
        after == IF req[r].role = "sender"
                   THEN [unestablishedPipe EXCEPT !.sender = NoReq]
                   ELSE IF idx # 0
                     THEN [unestablishedPipe EXCEPT !.receivers = Splice(@, idx)]
                     ELSE unestablishedPipe
    IN IF removed /\ Len(after.receivers) = 0 /\ after.sender = NoReq
         THEN Delete(reg, reqPath)
         ELSE [reg EXCEPT ![reqPath] = after]
  ELSE reg

\* closeReceiver of runPipe for receiver r of the pipe of sender s, on the
\* values st of pipes, res, pathToEstablished and conn: the values it leaves
closeReceiver(s, r, st) ==
  LET closeCount == st.pipes[s].closeCount + 1
      all == closeCount = Len(st.pipes[s].receivers)
  IN [pipes |-> [st.pipes EXCEPT ![s].closeCount = closeCount, ![s].piped = @ \ {r}],
      res |-> IF all THEN End(st.res, s, AllClosedMsg) ELSE st.res,
      established |-> IF all THEN st.established \ {st.pipes[s].path}
                             ELSE st.established,
      conn |-> IF all THEN Destroy(st.conn, s) ELSE st.conn]

\* receiver.res.connection.destroy() for every receiver, on senderData "close"
DestroyAll(cn, receivers) ==
  [r \in Req |-> IF r \in Range(receivers) /\ cn[r] = "open" THEN "destroyed" ELSE cn[r]]

TypeOK ==
  /\ pathToEstablished \subseteq Paths
  /\ DOMAIN pathToUnestablishedPipe \subseteq Paths
  /\ nextReq \in 1..(MaxReq + 1)
  /\ \A r \in Req : conn[r] \in {"open", "destroyed", "closed"}

Init ==
  /\ pathToEstablished = {}
  /\ pathToUnestablishedPipe = [p \in {} |-> NoUnestablishedPipe]
  /\ req = [r \in Req |-> NewReq]
  /\ conn = [r \in Req |-> "open"]
  /\ closeListener = [r \in Req |-> FALSE]
  /\ res = [r \in Req |-> NewRes]
  /\ pipes = [r \in Req |-> NoPipe]
  /\ answered = NoAnswer
  /\ nextReq = 1

\* The request of participant r emits "close": its connection was closed by
\* the client or the close of a destroyed connection is delivered.  With err
\* the request of a receiver of a running transfer emits "error" before it.
ReqClose(r, err) ==
  /\ req[r].role # "none"
  /\ conn[r] # "closed"
  /\ closeListener' = [closeListener EXCEPT ![r] = FALSE]
  /\ pathToUnestablishedPipe' =
       IF closeListener[r] THEN closeListenerFn(r, pathToUnestablishedPipe)
                           ELSE pathToUnestablishedPipe
  /\ LET cn == [conn EXCEPT ![r] = "closed"]
         s == PipeOf(r)
         st == [pipes |-> pipes, res |-> res, established |-> pathToEstablished,
                conn |-> cn]
     IN IF req[r].role = "receiver" /\ s # NoReq /\ pipes[s].stage = "piping"
          THEN LET c == IF err THEN closeReceiver(s, r, closeReceiver(s, r, st))
                               ELSE closeReceiver(s, r, st)
               IN /\ pipes' = c.pipes
                  /\ res' = c.res
                  /\ pathToEstablished' = c.established
                  /\ conn' = c.conn
          ELSE /\ ~err
               /\ IF req[r].role = "sender" /\ pipes[r].stage = "piping"
                    THEN /\ conn' = DestroyAll(cn, pipes[r].receivers)
                         /\ UNCHANGED <<pipes, res, pathToEstablished>>
                  ELSE IF req[r].role = "sender" /\ pipes[r].stage = "awaitPart"
                    THEN /\ conn' = cn
                         /\ pipes' = [pipes EXCEPT ![r].stage = "partFailed"]
                         /\ UNCHANGED <<res, pathToEstablished>>
                  ELSE /\ conn' = cn
                       /\ UNCHANGED <<pipes, res, pathToEstablished>>
  /\ UNCHANGED <<req, nextReq>>

\* form.once("part") resolves the promise runPipe awaits: the rest of runPipe
PartFound(s) ==
  /\ pipes[s].stage = "awaitPart"
  /\ conn[s] = "open"
  /\ pipes' = [pipes EXCEPT ![s].stage = "piping", ![s].piped = Range(pipes[s].receivers)]
  /\ res' = WriteHeadAll(res, pipes[s].receivers)
  /\ UNCHANGED <<pathToEstablished, pathToUnestablishedPipe, req, conn,
                 closeListener, nextReq>>

\* The multipart form fails, or the body ends, before a part is found: the
\* promise runPipe awaits is never settled
MultipartFail(s) ==
  /\ pipes[s].stage = "awaitPart"
  /\ conn[s] = "open"
  /\ pipes' = [pipes EXCEPT ![s].stage = "partFailed"]
  /\ UNCHANGED <<pathToEstablished, pathToUnestablishedPipe, req, conn,
                 closeListener, res, nextReq>>

Flowing(s) ==
  /\ pipes[s].stage = "piping"
  /\ pipes[s].src = "flowing"
  /\ conn[s] = "open"

\* SourceData that writes the chunk twice
SourceDataTwice(s) ==
  /\ Flowing(s)
  /\ pipes[s].sent < MaxChunks
  /\ pipes' = [pipes EXCEPT ![s].sent = @ + 1]
  /\ res' = [r \in Req |-> IF r \in pipes[s].piped
                             THEN [res[r] EXCEPT !.body = @ \o <<pipes[s].sent + 1,
                                                                  pipes[s].sent + 1>>]
                             ELSE res[r]]
  /\ UNCHANGED <<pathToEstablished, pathToUnestablishedPipe, req, conn,
                 closeListener, nextReq>>

\* senderData emits a chunk, which the pipes write to the receivers
SourceData(s) ==
  /\ Flowing(s)
  /\ pipes[s].sent < MaxChunks
  /\ pipes' = [pipes EXCEPT ![s].sent = @ + 1]
  /\ res' = [r \in Req |-> IF r \in pipes[s].piped
                             THEN [res[r] EXCEPT !.body = Append(@, pipes[s].sent + 1)]
                             ELSE res[r]]
  /\ UNCHANGED <<pathToEstablished, pathToUnestablishedPipe, req, conn,
                 closeListener, nextReq>>

\* senderData emits "end"
SourceEnd(s) ==
  /\ Flowing(s)
  /\ pipes' = [pipes EXCEPT ![s].src = "ended"]
  /\ LET rs == End(res, s, SuccessMsg)
     IN res' = [r \in Req |-> IF r \in pipes[s].piped
                                THEN [rs[r] EXCEPT !.ended = TRUE] ELSE rs[r]]
  /\ pathToEstablished' = pathToEstablished \ {pipes[s].path}
  /\ UNCHANGED <<pathToUnestablishedPipe, req, conn, closeListener, nextReq>>

\* senderData emits "error"
SourceError(s) ==
  /\ Flowing(s)
  /\ pipes' = [pipes EXCEPT ![s].src = "errored"]
  /\ res' = End(res, s, FailedMsg)
  /\ pathToEstablished' = pathToEstablished \ {pipes[s].path}
  /\ UNCHANGED <<pathToUnestablishedPipe, req, conn, closeListener, nextReq>>

\* The requests that may arrive.  The query and the content type are read by
\* handleSender and handleReceiver only, and the content type of a sender only.
Inputs ==
  {i \in [method : Methods, path : Paths, n : Ns, multipart : BOOLEAN] :
     /\ i.multipart => i.method \in {"POST", "PUT"} /\ i.n > 0
     /\ i.path \in RESERVED_PATHS \/ i.method \notin {"POST", "PUT", "GET"}
          => i.n = 1 /\ ~i.multipart}

\* The turns of the event loop.  The response a handler ends at once is handed
\* to the socket (Sent) before the next turn starts.
Request == answered = NoAnswer /\ \E i \in Inputs : HandleRequest(i.method, i.path, i.n, i.multipart)
Sent ==
  /\ answered # NoAnswer
  /\ answered' = NoAnswer
  /\ UNCHANGED <<pathToEstablished, pathToUnestablishedPipe, req, conn,
                 closeListener, res, pipes, nextReq>>
Close == answered = NoAnswer /\ \E r \in Req : ReqClose(r, FALSE) /\ UNCHANGED answered
Error == answered = NoAnswer /\ \E r \in Req : ReqClose(r, TRUE) /\ UNCHANGED answered
Part == answered = NoAnswer /\ \E s \in Req : PartFound(s) /\ UNCHANGED answered
PartFail == answered = NoAnswer /\ \E s \in Req : MultipartFail(s) /\ UNCHANGED answered
Data == answered = NoAnswer /\ \E s \in Req : SourceData(s) /\ UNCHANGED answered
SrcEnd == answered = NoAnswer /\ \E s \in Req : SourceEnd(s) /\ UNCHANGED answered
SrcError == answered = NoAnswer /\ \E s \in Req : SourceError(s) /\ UNCHANGED answered

Next ==
  \/ Request
  \/ Sent
  \/ Close
  \/ Error
  \/ Part
  \/ PartFail
  \/ Data
  \/ SrcEnd
  \/ SrcError

Spec == Init /\ [][Next]_vars

\* The delivery of the "close" of a destroyed connection
DeliverClose(r) ==
  /\ answered = NoAnswer
  /\ conn[r] = "destroyed"
  /\ ReqClose(r, FALSE)
  /\ UNCHANGED answered

\* The event loop delivers the close of every destroyed connection and sends
\* every response that was ended; what the clients do is not constrained.
FairSpec == Spec /\ WF_vars(Sent) /\ \A r \in Req : SF_vars(DeliverClose(r))

----------------------------------------------------------------------------
\* Vocabulary of the properties

Senders == {s \in Req : req[s].role = "sender"}
Receivers == {r \in Req : req[r].role = "receiver"}
\* The senders for which runPipe was invoked, i.e. the transfers
Transfers == {s \in Req : pipes[s].stage # "none"}
ReceiversOf(s) == Range(pipes[s].receivers)
\* The connection of the receiver has closed
Gone(r) == conn[r] = "closed"
\* The transfer has concluded: its source ended or errored, or all of its
\* receivers have closed
Concluded(s) ==
  \/ pipes[s].src \in {"ended", "errored"}
  \/ \A r \in ReceiversOf(s) : Gone(r)
TerminalLines == {SuccessMsg, FailedMsg, AllClosedMsg}
\* The lines of the calls of res.write and res.end on the response of s
Calls(s) == res[s].out \o res[s].late

\* C1: the established flag of a path is set if and only if a transfer
\* started on the path has not yet concluded.
C1_EstablishedIffInProgress ==
  \A p \in Paths :
    p \in pathToEstablished <=>
      \E s \in Transfers : pipes[s].path = p /\ ~Concluded(s)

\* C2: the response of the sender of a transfer is ended with one terminal
\* line and no second terminal line is written or ended on it afterwards.
C2_OneTerminalLine ==
  \A s \in Transfers :
    Cardinality({i \in 1..Len(Calls(s)) : Calls(s)[i] \in TerminalLines}) <= 1

\* C3: the line of all receivers closed is written to the sender only once
\* all the distinct receivers of the transfer have closed or errored.
C3_AllClosedOnlyWhenAllGone ==
  \A s \in Transfers :
    AllClosedMsg \in Range(Calls(s)) => \A r \in ReceiversOf(s) : Gone(r)

WaitingLines == {WaitingMsg(n) : n \in Ns}
ConnectedLines == {ConnectedMsg(k) : k \in 1..MaxN}
StartLines == {StartSendingMsg} \cup {StartSendingWithMsg(n) : n \in Ns}
\* The place of a line in the order of the lines of a sender, 0 for a line
\* that is none of them
Rank(l) ==
  IF l \in WaitingLines THEN 1
  ELSE IF l \in ConnectedLines THEN 2
  ELSE IF l = AReceiverMsg THEN 3
  ELSE IF l \in StartLines THEN 4
  ELSE IF l \in TerminalLines THEN 5
  ELSE 0
Count(out, l) == Cardinality({i \in 1..Len(out) : out[i] = l})

\* The lines of sender s are in order: the waiting line, the line of the
\* receivers connected, the lines of the receivers that connected later, one
\* start line exactly when a transfer was started, chosen by the arrival that
\* completed the quorum, and the terminal line after the start line
LinesInOrder(s) ==
  LET out == res[s].out IN
  /\ Len(out) >= 1
  /\ out[1] = WaitingMsg(req[s].n)
  /\ \A i \in 1..Len(out) : Rank(out[i]) # 0
  /\ \A i, j \in 1..Len(out) :
       i < j => /\ Rank(out[i]) <= Rank(out[j])
                /\ Rank(out[i]) = Rank(out[j]) => out[i] = AReceiverMsg
  /\ (\E i \in 1..Len(out) : Rank(out[i]) = 4) <=> s \in Transfers
  /\ (\E i \in 1..Len(out) : Rank(out[i]) = 5) => s \in Transfers
  /\ s \in Transfers =>
       IF \A r \in ReceiversOf(s) : r < s
         THEN StartSendingMsg \in Range(out)
         ELSE StartSendingWithMsg(Len(pipes[s].receivers)) \in Range(out)

\* What a step writes to sender s: on its arrival the waiting line and, if
\* and only if it joins a record, the number K >= 1 of the receivers of the
\* record; one line per receiver admitted to the record that holds s
LinesOfStep(s) ==
  IF s = nextReq /\ nextReq' # nextReq /\ req'[s].role = "sender"
    THEN LET p == req'[s].path
             out == res'[s].out
         IN IF p \in DOMAIN pathToUnestablishedPipe
              THEN LET k == Len(pathToUnestablishedPipe[p].receivers)
                   IN /\ k >= 1
                      /\ Len(out) >= 2
                      /\ out[2] = ConnectedMsg(k)
                      /\ Count(out, AReceiverMsg) = 0
              ELSE out = <<WaitingMsg(req'[s].n)>>
  ELSE IF /\ req[s].role = "sender"
          /\ nextReq' # nextReq
          /\ req'[nextReq].role = "receiver"
          /\ req'[nextReq].path \in DOMAIN pathToUnestablishedPipe
          /\ pathToUnestablishedPipe[req'[nextReq].path].sender = s
    THEN /\ Len(res'[s].out) > Len(res[s].out)
         /\ SubSeq(res'[s].out, 1, Len(res[s].out)) = res[s].out
         /\ res'[s].out[Len(res[s].out) + 1] = AReceiverMsg
         /\ Count(res'[s].out, AReceiverMsg) = Count(res[s].out, AReceiverMsg) + 1
  ELSE Count(res'[s].out, AReceiverMsg) = Count(res[s].out, AReceiverMsg)

\* C4: the lines written to the response of every admitted sender appear in
\* the order waiting, receivers connected (only for a sender that joined a
\* record, with K >= 1 receivers), one line per receiver admitted afterwards,
\* one start line at establishment chosen by the arrival that completed the
\* quorum, and the terminal line only after the start line.
C4_SenderLineOrder ==
  [][UNCHANGED <<res, req, pipes>> \/
     \A s \in Req : req'[s].role = "sender" => LinesOfStep(s) /\ LinesInOrder(s)']_vars

\* A sender that joined a record of one receiver, was told of the second
\* receiver and of the start, and has its terminal line
C4_Witness ==
  \E s \in Senders :
    res[s].out = <<WaitingMsg(2), ConnectedMsg(1), AReceiverMsg,
                   StartSendingWithMsg(2), SuccessMsg>>

\* The reply a is a rejection: it has status 400 or answers a request with
\* an unsupported method
Rejection(a) ==
  \/ a.status = 400
  \/ \E m \in Methods \ {"POST", "PUT", "GET"} : a = Answer(0, UnsupportedMethodMsg(m))

\* C5: a request that is rejected leaves the flags, the records, the
\* participants, their responses and connections and the close watchers as
\* they were.
C5_RejectionLeavesRegistry ==
  [][answered' # answered /\ Rejection(answered') =>
       UNCHANGED <<pathToEstablished, pathToUnestablishedPipe, req, conn,
                   closeListener, res, pipes, nextReq>>]_vars

\* A second sender was rejected on a path where a sender waits
C5_Witness ==
  /\ answered = Answer(400, DuplicateSenderMsg("/a"))
  /\ "/a" \in DOMAIN pathToUnestablishedPipe
  /\ pathToUnestablishedPipe["/a"].sender # NoReq
  /\ closeListener[pathToUnestablishedPipe["/a"].sender]

\* The transfer of s met one of the events that conclude it: its source
\* ended or errored, its sender closed the connection, or all its receivers
\* closed
Triggered(s) ==
  /\ s \in Transfers
  /\ \/ pipes[s].src \in {"ended", "errored"}
     \/ conn[s] = "closed"
     \/ \A r \in ReceiversOf(s) : Gone(r)

\* C6: once the source of a transfer has ended or errored, its sender has
\* closed or all its receivers have closed, the established flag of its path
\* is eventually cleared.
C6_PathReleased ==
  \A s \in Req : Triggered(s) ~> (pipes[s].path \notin pathToEstablished)

\* C7: the step in which the source of a transfer errors ends the response of
\* the sender with the line of the failure, leaves no connection of a
\* receiver of the transfer open and clears the established flag of the path.
C7_SourceErrorTearsDown ==
  [][\A s \in Req :
       pipes[s].src = "flowing" /\ pipes'[s].src = "errored" =>
         /\ FailedMsg \in Range(res'[s].out)
         /\ \A r \in Range(pipes[s].receivers) : conn'[r] # "open"
         /\ pipes[s].path \notin pathToEstablished']_vars

\* C8: a multipart body that fails or ends before its first part is handled
\* as an error of the source: the sender has the line of the failure and the
\* path is not established.
C8_MultipartFailureIsSourceError ==
  \A s \in Req :
    pipes[s].stage = "partFailed" =>
      /\ FailedMsg \in Range(Calls(s))
      /\ pipes[s].path \notin pathToEstablished

\* The record of path p has a sender, has a count other than n, is full
HasSender(p) ==
  p \in DOMAIN pathToUnestablishedPipe /\ pathToUnestablishedPipe[p].sender # NoReq
OtherCount(p, n) ==
  p \in DOMAIN pathToUnestablishedPipe /\ pathToUnestablishedPipe[p].nReceivers # n
Full(p) ==
  /\ p \in DOMAIN pathToUnestablishedPipe
  /\ Len(pathToUnestablishedPipe[p].receivers) = pathToUnestablishedPipe[p].nReceivers
ExpectedOf(p) ==
  IF p \in DOMAIN pathToUnestablishedPipe THEN pathToUnestablishedPipe[p].nReceivers
                                          ELSE 0

\* The checks of a sender and of a receiver in their order, each with the
\* message of its rejection
SenderChecks(p, n) ==
  << <<p \in RESERVED_PATHS, ReservedPathMsg(p)>>,
     <<n <= 0, BadCountMsg(n)>>,
     <<p \in pathToEstablished, SenderEstablishedMsg(p)>>,
     <<HasSender(p), DuplicateSenderMsg(p)>>,
     <<OtherCount(p, n), CountMismatchMsg(ExpectedOf(p), n)>> >>
ReceiverChecks(p, n) ==
  << <<n <= 0, BadCountMsg(n)>>,
     <<p \in pathToEstablished, ReceiverEstablishedMsg(p)>>,
     <<OtherCount(p, n), CountMismatchMsg(ExpectedOf(p), n)>>,
     <<Full(p), ReceiversFullMsg>> >>

\* The rejection of the first failing check, NoAnswer when no check fails
FirstFailing(checks) ==
  IF \E i \in 1..Len(checks) : checks[i][1]
    THEN LET i == CHOOSE k \in 1..Len(checks) :
                    checks[k][1] /\ \A j \in 1..(k - 1) : ~checks[j][1]
         IN Answer(400, checks[i][2])
    ELSE NoAnswer

\* C9: in every state in which a request can arrive (no reply is waiting to
\* be sent), the answer of the handler to an arrival is the
\* rejection of the first failing check of its order, with status 400 and the
\* message of the check, and no answer (the arrival is admitted) when no
\* check fails.
C9_FirstFailingCheck ==
  answered = NoAnswer =>
    /\ \A m \in {"POST", "PUT"}, p \in Paths, n \in Ns :
         handlerAnswer(m, p, n) = FirstFailing(SenderChecks(p, n))
    /\ \A p \in Paths \ RESERVED_PATHS, n \in Ns :
         handlerAnswer("GET", p, n) = FirstFailing(ReceiverChecks(p, n))

\* A sender with a count other than that of the record was rejected for the
\* sender that is registered in the record, the earlier of its failing checks
C9_Witness ==
  /\ answered = Answer(400, DuplicateSenderMsg("/a"))
  /\ HasSender("/a")
  /\ \E n \in Ns : OtherCount("/a", n) /\ answered = handlerAnswer("POST", "/a", n)

\* The original reading of C10: a receiver has no status and no body until
\* its path is established and status 200 from then on.
C10_StatusAtEstablishment ==
  \A r \in Receivers :
    IF PipeOf(r) = NoReq THEN res[r].status = 0 /\ res[r].body = <<>>
                         ELSE res[r].status = 200

\* C10: a receiver has no status and no body byte until its transfer runs,
\* which for a multipart sender is once the first part was found; from then
\* on it has status 200, so no body byte is written to it before the status.
C10_HeadersBeforeBody ==
  \A r \in Receivers :
    IF PipeOf(r) # NoReq /\ pipes[PipeOf(r)].stage = "piping"
      THEN res[r].status = 200
      ELSE res[r].status = 0 /\ res[r].body = <<>>

\* A receiver of a multipart sender has its status and a chunk of the part
C10_Witness ==
  \E r \in Receivers :
    /\ PipeOf(r) # NoReq
    /\ req[PipeOf(r)].multipart
    /\ res[r].status = 200
    /\ res[r].body # <<>>

\* The participants held in the record of path p
HeldIn(reg, p) ==
  Range(reg[p].receivers) \cup
    (IF reg[p].sender # NoReq THEN {reg[p].sender} ELSE {})

\* C11: the count of a record is the N of every participant it holds, so of
\* the arrival that created it, and a step that keeps the record keeps its
\* count.
C11_RecordCountFixed ==
  [][/\ \A p \in DOMAIN pathToUnestablishedPipe' :
          \A x \in HeldIn(pathToUnestablishedPipe', p) :
            req'[x].n = pathToUnestablishedPipe'[p].nReceivers
     /\ \A p \in DOMAIN pathToUnestablishedPipe \cap DOMAIN pathToUnestablishedPipe' :
          pathToUnestablishedPipe'[p].nReceivers = pathToUnestablishedPipe[p].nReceivers
     /\ \A p \in DOMAIN pathToUnestablishedPipe' \ DOMAIN pathToUnestablishedPipe :
          /\ nextReq' = nextReq + 1
          /\ pathToUnestablishedPipe'[p].nReceivers = req'[nextReq].n
          /\ HeldIn(pathToUnestablishedPipe', p) = {nextReq}]_vars

\* A record of count 2 holds its sender and a receiver, and an arrival with
\* another count was rejected
C11_Witness ==
  /\ "/a" \in DOMAIN pathToUnestablishedPipe
  /\ pathToUnestablishedPipe["/a"].nReceivers = 2
  /\ pathToUnestablishedPipe["/a"].sender # NoReq
  /\ Len(pathToUnestablishedPipe["/a"].receivers) = 1
  /\ answered = Answer(400, CountMismatchMsg(2, 1))

\* C12: no record, no established flag and no participant is on a reserved
\* path; whenever a request can arrive and whatever its count, a POST or PUT
\* to a reserved path is answered 400 with the line of the reserved path and
\* a GET to it with the static page.
C12_ReservedPathsUnused ==
  /\ DOMAIN pathToUnestablishedPipe \cap RESERVED_PATHS = {}
  /\ pathToEstablished \cap RESERVED_PATHS = {}
  /\ \A r \in Senders \cup Receivers : req[r].path \notin RESERVED_PATHS
  /\ answered = NoAnswer =>
       \A p \in RESERVED_PATHS, n \in Ns :
         /\ \A m \in {"POST", "PUT"} :
              handlerAnswer(m, p, n) = Answer(400, ReservedPathMsg(p))
         /\ handlerAnswer("GET", p, n) = Answer(0, StaticPage(p))

\* A POST to a reserved path was rejected while a record exists
C12_Witness ==
  /\ answered = Answer(400, ReservedPathMsg("/version"))
  /\ DOMAIN pathToUnestablishedPipe # {}

\* The first k chunks of a source, which emits the chunks 1, 2, ... in order
SourcePrefix(k) == [i \in 1..k |-> i]

C14_RecordOrFlag ==
  [][/\ DOMAIN pathToUnestablishedPipe' \cap pathToEstablished' = {}
     /\ \A p \in pathToEstablished' \ pathToEstablished :
          p \in DOMAIN pathToUnestablishedPipe /\ p \notin DOMAIN pathToUnestablishedPipe'
     /\ \A p \in DOMAIN pathToUnestablishedPipe' \ DOMAIN pathToUnestablishedPipe :
          p \notin pathToEstablished]_vars

\* A transfer runs on a path that has its flag and no record, while an
\* arrival on the path was rejected as established
C14_Witness ==
  /\ "/a" \in pathToEstablished
  /\ "/a" \notin DOMAIN pathToUnestablishedPipe
  /\ \E s \in Transfers : pipes[s].path = "/a"
  /\ answered = Answer(400, ReceiverEstablishedMsg("/a"))

\* The record has a sender and as many receivers as it expects
Complete(rec) == rec.sender # NoReq /\ Len(rec.receivers) = rec.nReceivers

\* The record of the path of the arrival a once a is registered in it, from
\* the registry before the step and the participant the step admits
Registering(a) ==
  LET p == req'[a].path
      old == IF p \in DOMAIN pathToUnestablishedPipe
               THEN pathToUnestablishedPipe[p]
               ELSE [sender |-> NoReq, receivers |-> <<>>, nReceivers |-> req'[a].n]
  IN IF req'[a].role = "sender" THEN [old EXCEPT !.sender = a]
                                ELSE [old EXCEPT !.receivers = Append(@, a)]

\* The step starts the transfer of s
Starts(s) == pipes[s].stage = "none" /\ pipes'[s].stage # "none"

\* C15: a step starts a transfer if and only if it registers an arrival that
\* leaves the record of its path, not established, with a sender and exactly
\* the expected receivers, and the transfer takes that sender and those
\* receivers; otherwise the record is kept, so no record is complete and
\* every transfer has a sender and as many receivers as the sender expects.
C15_EstablishmentEquivalence ==
  [][/\ IF nextReq' # nextReq
          THEN LET after == Registering(nextReq)
                   p == req'[nextReq].path
               IN /\ p \notin pathToEstablished
                  /\ IF Complete(after)
                       THEN /\ Starts(after.sender)
                            /\ \A s \in Req : Starts(s) => s = after.sender
                            /\ pipes'[after.sender].receivers = after.receivers
                            /\ pipes'[after.sender].path = p
                            /\ p \in pathToEstablished'
                       ELSE /\ \A s \in Req : ~Starts(s)
                            /\ p \in DOMAIN pathToUnestablishedPipe'
                            /\ pathToUnestablishedPipe'[p] = after
          ELSE \A s \in Req : ~Starts(s)
     /\ \A p \in DOMAIN pathToUnestablishedPipe' : ~Complete(pathToUnestablishedPipe'[p])
     /\ \A s \in Req : pipes'[s].stage # "none" =>
          /\ req'[s].role = "sender"
          /\ Len(pipes'[s].receivers) = req'[s].n]_vars

\* The transfer of a sender that expects two receivers and arrived after the
\* first of them started when the second arrived
C15_Witness ==
  /\ req[2].role = "sender" /\ req[2].n = 2
  /\ pipes[2].stage # "none"
  /\ pipes[2].receivers = <<1, 3>>

\* C16: every record expects at least one receiver and holds at most as many
\* receivers as it expects.
C16_RecordBounds ==
  \A p \in DOMAIN pathToUnestablishedPipe :
    /\ pathToUnestablishedPipe[p].nReceivers >= 1
    /\ Len(pathToUnestablishedPipe[p].receivers) <= pathToUnestablishedPipe[p].nReceivers

\* After a disconnect a record holds all the receivers it expects and a
\* further receiver was rejected
C16_Witness ==
  /\ answered = Answer(400, ReceiversFullMsg)
  /\ \E r \in Req : conn[r] = "closed"
  /\ \E p \in DOMAIN pathToUnestablishedPipe :
       Len(pathToUnestablishedPipe[p].receivers) = pathToUnestablishedPipe[p].nReceivers

\* C17: after every step every record holds a sender or a receiver, so a
\* step whose disconnect leaves a record with neither deletes the record.
C17_EmptyRecordDeleted ==
  [][\A p \in DOMAIN pathToUnestablishedPipe' :
       HeldIn(pathToUnestablishedPipe', p) # {}]_vars

\* The only participant of a record of count 1 closed, no transfer has
\* started, and the path has a record of count 2
C17_Witness ==
  /\ Transfers = {}
  /\ req[1].path = "/a" /\ req[1].n = 1 /\ conn[1] = "closed"
  /\ "/a" \in DOMAIN pathToUnestablishedPipe
  /\ pathToUnestablishedPipe["/a"].nReceivers = 2

\* C18: no rendezvous close watcher of a participant of a transfer, its
\* sender or one of its receivers, is installed.
C18_WatchersRevoked ==
  \A s \in Transfers :
    /\ ~closeListener[s]
    /\ \A r \in ReceiversOf(s) : ~closeListener[r]

\* Participant x is held in a record of the registry reg
InRecord(reg, x) == \E p \in DOMAIN reg : x \in HeldIn(reg, p)

\* C19: a participant that is held in a record and whose connection stays
\* open is still held after the step, unless the step hands it to a transfer.
C19_WatcherRemovesOnlyOwn ==
  [][\A x \in Req :
       InRecord(pathToUnestablishedPipe, x) /\ conn'[x] = "open" =>
         \/ InRecord(pathToUnestablishedPipe', x)
         \/ pipes'[x].stage # "none"
         \/ \E s \in Req : x \in Range(pipes'[s].receivers)]_vars

\* C20: in a running transfer every receiver whose connection has closed was
\* counted by closeReceiver.
C20_NoReceiverCloseLost ==
  \A s \in Transfers :
    pipes[s].stage = "piping" =>
      pipes[s].closeCount >= Cardinality({r \in ReceiversOf(s) : conn[r] = "closed"})

\* C21: after every step no participant held in a record has a closed
\* connection, and the sender and the receivers of a transfer that the step
\* starts are connected.
C21_HeldParticipantsConnected ==
  [][/\ \A p \in DOMAIN pathToUnestablishedPipe' :
          \A x \in HeldIn(pathToUnestablishedPipe', p) : conn'[x] = "open"
     /\ \A s \in Req : Starts(s) =>
          /\ conn'[s] = "open"
          /\ \A r \in Range(pipes'[s].receivers) : conn'[r] = "open"]_vars

\* Of two receivers of a record that expects two the first closed; the
\* sender that arrived then waits with the second, and no transfer started
C21_Witness ==
  /\ Transfers = {}
  /\ req[1].role = "receiver" /\ conn[1] = "closed"
  /\ "/a" \in DOMAIN pathToUnestablishedPipe
  /\ pathToUnestablishedPipe["/a"] = [sender |-> 3, receivers |-> <<2>>, nReceivers |-> 2]
====
